---- MODULE Spec2Model ----
(***************************************************************************)
(* Model of src/server.js: the as-of price lookup (getPrice), the backtest *)
(* engine (backtest), the DropsTab normalizer (fetchRealUnlocks) and the   *)
(* request handlers of the HTTP server.                                    *)
(*                                                                         *)
(* Representation.  An ISO timestamp of the fixtures is the number of      *)
(* whole hours since the epoch; Date.parse turns it into milliseconds.     *)
(* A JavaScript value that may be undefined is a sequence of length <= 1   *)
(* (<<>> is undefined, <<v>> is v).  A JavaScript number produced by the   *)
(* ROI arithmetic is an exact fraction or one of the IEEE-754 specials     *)
(* (Infinity, -Infinity, NaN); rounding of finite doubles is not modelled. *)
(***************************************************************************)
EXTENDS Integers, Sequences, FiniteSets

VARIABLES
    unlocks,           \* server.js:24  the local unlock collection
    priceSeries,       \* server.js:27  token -> sequence of price points
    DROPSTAB_API_KEY,  \* server.js:34  <<>> when the variable is not set
    req,               \* the in-flight HTTP requests, by request id
    ret                \* the last direct call of getPrice / backtest

vars == <<unlocks, priceSeries, DROPSTAB_API_KEY, req, ret>>

(***************************************************************************)
(* Bounds of the model.                                                    *)
(***************************************************************************)
MaxSeriesLen == 2      \* longest price series drawn
MaxEvents == 2         \* longest local unlock collection drawn
MaxRequests == 2       \* request ids of the server specifications

Instants == 0 .. 2     \* fixture timestamps, in hours since the epoch
Prices == 0 .. 2       \* fixture prices (PricePoint.price is >= 0)
Hours == -1 .. 2       \* hoursBefore / hoursAfter of a direct call
Tokens == {"AAA", "BBB"}       \* AAA has a price series, BBB has none
AnyToken == Tokens \cup {"ZZZ"} \* ZZZ: neither events nor series

MsPerHour == 3600000   \* server.js:125  3600 * 1000

undefined == <<>>

\* server.js:100,124  Date.parse of a fixture timestamp, in milliseconds
DateParse(timestamp) == timestamp * MsPerHour

(***************************************************************************)
(* JavaScript numbers of the ROI arithmetic.                               *)
(***************************************************************************)
RECURSIVE Gcd(_, _)
Gcd(a, b) == IF b = 0 THEN a ELSE Gcd(b, a % b)

Abs(x) == IF x < 0 THEN -x ELSE x

\* the fraction n/d (d > 0) in lowest terms
Fin(n, d) ==
    LET g == Gcd(Abs(n), d)
    IN  [k |-> "fin", n |-> n \div g, d |-> d \div g]

PosInf == [k |-> "inf", n |-> 0, d |-> 1]
NegInf == [k |-> "ninf", n |-> 0, d |-> 1]
NaN == [k |-> "nan", n |-> 0, d |-> 1]
Zero == Fin(0, 1)

\* a / b for integers a, b (IEEE-754 division: x/0 is +-Infinity, 0/0 is NaN)
JsDiv(a, b) ==
    IF b = 0
    THEN IF a = 0 THEN NaN ELSE IF a > 0 THEN PosInf ELSE NegInf
    ELSE IF b > 0 THEN Fin(a, b) ELSE Fin(-a, -b)

\* x + y
JsAdd(x, y) ==
    IF x.k = "nan" \/ y.k = "nan" THEN NaN
    ELSE IF x.k = "fin" /\ y.k = "fin" THEN Fin(x.n * y.d + y.n * x.d, x.d * y.d)
    ELSE IF x.k = "fin" THEN y
    ELSE IF y.k = "fin" THEN x
    ELSE IF x.k = y.k THEN x ELSE NaN

\* x / m for a number x and an integer m > 0
JsDivInt(x, m) == IF x.k = "fin" THEN Fin(x.n, x.d * m) ELSE x

\* x > 0
JsPositive(x) == x.k = "inf" \/ (x.k = "fin" /\ x.n > 0)

IsFinite(x) == x.k = "fin"

(***************************************************************************)
(* getPrice (server.js:94-108)                                             *)
(***************************************************************************)
\* the alternative comparison "pTs < ts"
SampleQualifiesStrict(pTs, ts) == pTs < ts

\* server.js:101  the test of the scan
SampleQualifies(pTs, ts) == pTs <= ts

\* server.js:98-107  the scan from index i on, price being the tracked price
RECURSIVE getPriceLoop(_, _, _, _)
getPriceLoop(series, ts, i, price) ==
    IF i > Len(series) THEN price
    ELSE IF SampleQualifies(DateParse(series[i].timestamp), ts)
         THEN getPriceLoop(series, ts, i + 1, <<series[i].price>>)
         ELSE price

getPrice(token, ts) ==
    IF token \notin DOMAIN priceSeries THEN undefined
    ELSE getPriceLoop(priceSeries[token], ts, 1, undefined)

(***************************************************************************)
(* backtest (server.js:118-143)                                            *)
(***************************************************************************)
\* the alternative test "roi >= 0"
IsWinOrFlat(roi) == roi.k = "inf" \/ (roi.k = "fin" /\ roi.n >= 0)

\* server.js:133  roi > 0
IsWin(roi) == JsPositive(roi)

\* the alternative without the "trades > 0" guard: 0 / 0 is NaN
MeanUnguarded(total, trades) ==
    IF trades = 0 THEN NaN ELSE JsDivInt(total, trades)

\* server.js:136-137  trades > 0 ? total / trades : 0
Mean(total, trades) == IF trades > 0 THEN JsDivInt(total, trades) ELSE Zero

\* server.js:124-134  the body of the forEach callback; acc holds the
\* callback's captured counters trades, wins and totalRoi
backtestStep(acc, ev, token, hoursBefore, hoursAfter) ==
    LET unlockTime == DateParse(ev.timestamp)
        buyTs == unlockTime - hoursBefore * MsPerHour
        sellTs == unlockTime + hoursAfter * MsPerHour
        buyPrice == getPrice(token, buyTs)
        sellPrice == getPrice(token, sellTs)
    IN  IF buyPrice # undefined /\ sellPrice # undefined
        THEN LET roi == JsDiv(sellPrice[1] - buyPrice[1], buyPrice[1])
             IN  [totalRoi |-> JsAdd(acc.totalRoi, roi),
                  trades |-> acc.trades + 1,
                  wins |-> IF IsWin(roi) THEN acc.wins + 1 ELSE acc.wins]
        ELSE acc

\* server.js:123  events.forEach, from index i on
RECURSIVE backtestLoop(_, _, _, _, _, _)
backtestLoop(events, i, acc, token, hoursBefore, hoursAfter) ==
    IF i > Len(events) THEN acc
    ELSE backtestLoop(events, i + 1,
                      backtestStep(acc, events[i], token, hoursBefore, hoursAfter),
                      token, hoursBefore, hoursAfter)

backtest(token, hoursBefore, hoursAfter) ==
    LET events == SelectSeq(unlocks, LAMBDA u : u.token = token)
        acc == backtestLoop(events, 1,
                            [totalRoi |-> Zero, trades |-> 0, wins |-> 0],
                            token, hoursBefore, hoursAfter)
    IN  [trades |-> acc.trades,
         winRate |-> Mean(Fin(acc.wins, 1), acc.trades),
         avgRoi |-> Mean(acc.totalRoi, acc.trades)]

(***************************************************************************)
(* Fixtures and requests of the specifications.                            *)
(***************************************************************************)
SeqsUpTo(S, n) == UNION {[1 .. k -> S] : k \in 0 .. n}

PricePoints == [timestamp : Instants, price : Prices]

IsSorted(series) ==
    \A i \in 1 .. Len(series) - 1 : series[i].timestamp <= series[i + 1].timestamp

AllSeries == SeqsUpTo(PricePoints, MaxSeriesLen)
SortedSeries == {s \in AllSeries : IsSorted(s)}

LocalEvents == [token : Tokens, timestamp : Instants, amountUsd : {0}, shortable : {FALSE}]

Requests == 1 .. MaxRequests

Idle == [route |-> "idle"]
NoCall == [op |-> "none"]

(***************************************************************************)
(* Direct calls of the two pure functions.                                 *)
(***************************************************************************)
TsInputs == {h * MsPerHour + d : h \in -1 .. 3, d \in {-1, 0}}

CallGetPrice ==
    \E token \in AnyToken, ts \in TsInputs :
        /\ ret = NoCall
        /\ ret' = [op |-> "getPrice", token |-> token, ts |-> ts,
                   value |-> getPrice(token, ts)]
        /\ UNCHANGED <<unlocks, priceSeries, DROPSTAB_API_KEY, req>>

CallBacktest ==
    \E token \in AnyToken, hoursBefore \in Hours, hoursAfter \in Hours :
        /\ ret = NoCall
        /\ ret' = [op |-> "backtest", token |-> token,
                   hoursBefore |-> hoursBefore, hoursAfter |-> hoursAfter,
                   value |-> backtest(token, hoursBefore, hoursAfter)]
        /\ UNCHANGED <<unlocks, priceSeries, DROPSTAB_API_KEY, req>>

\* getPrice over every price series, sorted or not
InitPrice ==
    /\ unlocks = <<>>
    /\ priceSeries \in {[t \in {"AAA"} |-> s] : s \in AllSeries}
    /\ DROPSTAB_API_KEY = undefined
    /\ req = [r \in Requests |-> Idle]
    /\ ret = NoCall

NextPrice == CallGetPrice

SpecPrice == InitPrice /\ [][NextPrice]_vars

\* backtest over every local collection and every sorted price series
InitBacktest ==
    /\ unlocks \in SeqsUpTo(LocalEvents, MaxEvents)
    /\ priceSeries \in {[t \in {"AAA"} |-> s] : s \in SortedSeries}
    /\ DROPSTAB_API_KEY = undefined
    /\ req = [r \in Requests |-> Idle]
    /\ ret = NoCall

NextBacktest == CallBacktest

SpecBacktest == InitBacktest /\ [][NextBacktest]_vars

(***************************************************************************)
(* JSON values of the request and response bodies.  A scalar is a record   *)
(* [t, b, n, s]: its type and its boolean, number or string content.       *)
(***************************************************************************)
JAbsent == [t |-> "absent", b |-> FALSE, n |-> 0, s |-> ""]
JNull == [t |-> "null", b |-> FALSE, n |-> 0, s |-> ""]
JObj == [t |-> "obj", b |-> FALSE, n |-> 0, s |-> ""]
JBool(b) == [t |-> "bool", b |-> b, n |-> 0, s |-> ""]
JNum(n) == [t |-> "num", b |-> FALSE, n |-> n, s |-> ""]
JStr(s) == [t |-> "str", b |-> FALSE, n |-> 0, s |-> s]

\* the alternative that takes every value for truthy
TruthyAlways(j) == TRUE

\* server.js:208  the truthiness of a value (the operand of "!")
Truthy(j) ==
    CASE j.t = "absent" -> FALSE
      [] j.t = "null" -> FALSE
      [] j.t = "bool" -> j.b
      [] j.t = "num" -> j.n # 0
      [] j.t = "str" -> j.s # ""
      [] OTHER -> TRUE

\* StringToNumber over the strings of the model; <<>> is NaN
StringToNumber(s) ==
    CASE s = "" -> <<0>>
      [] s = "2" -> <<2>>
      [] OTHER -> <<>>

\* server.js:206-207  Number(v); <<>> is NaN
Number(j) ==
    CASE j.t = "absent" -> <<>>
      [] j.t = "null" -> <<0>>
      [] j.t = "bool" -> IF j.b THEN <<1>> ELSE <<0>>
      [] j.t = "num" -> <<j.n>>
      [] j.t = "str" -> StringToNumber(j.s)
      [] OTHER -> <<>>

\* server.js:206-207  v || 0
OrZero(v) == IF v = <<>> \/ v = <<0>> THEN 0 ELSE v[1]

(***************************************************************************)
(* fetchRealUnlocks (server.js:42-84)                                      *)
(*                                                                         *)
(* A provider response body is [t, data]: t is "invalid" (not JSON),       *)
(* "null", "prim" (a number, string or boolean), "arr" (a top-level array) *)
(* or "obj"; data is the object's data field [t, items]: "absent", "falsy" *)
(* (null, 0, "", false), "other" (a truthy value that is not an array) or  *)
(* "arr" with its records.  A record is [t, coin, date, amount]: t is      *)
(* "null" or "obj", date a day number, amount <<>> when missing.           *)
(***************************************************************************)
NoData == [t |-> "absent", items |-> <<>>]
Rec(coin, date, amount) == [t |-> "obj", coin |-> coin, date |-> date, amount |-> amount]
NullRec == [t |-> "null", coin |-> "", date |-> 0, amount |-> <<>>]
DataArr(items) == [t |-> "arr", items |-> items]
BodyObj(data) == [t |-> "obj", data |-> data]

\* the promise's value: null, or the mapped events
Null == [isNull |-> TRUE, events |-> <<>>]
Events(evs) == [isNull |-> FALSE, events |-> evs]

\* server.js:65-70  the map callback; the record is an object
mapRecord(ev) ==
    [token |-> ev.coin,
     timestamp |-> ev.date * 24,          \* `${ev.date}T00:00:00Z`
     amountUsd |-> IF ev.amount = <<>> \/ ev.amount = <<0>> THEN 0 ELSE ev.amount[1],
     shortable |-> FALSE]

\* the alternative that skips the records it cannot map
parseAndMapLenient(body) ==
    IF body.t \in {"invalid", "null"} THEN Null
    ELSE IF body.t # "obj" \/ body.data.t \in {"absent", "falsy"} THEN Events(<<>>)
    ELSE IF body.data.t = "other" THEN Null
    ELSE LET good == SelectSeq(body.data.items, LAMBDA ev : ev.t = "obj")
         IN  Events([i \in 1 .. Len(good) |-> mapRecord(good[i])])

\* server.js:62-75  the try block of the 'end' handler and its catch: the
\* value the handler passes to resolve
parseAndMap(body) ==
    IF body.t = "invalid" THEN Null                  \* JSON.parse throws
    ELSE IF body.t = "null" THEN Null                \* null.data throws
    ELSE IF body.t # "obj" \/ body.data.t \in {"absent", "falsy"}
         THEN Events(<<>>)                           \* parsed.data || []
    ELSE IF body.data.t = "other" THEN Null          \* data.map is not a function
    ELSE LET items == body.data.items
         IN  IF \E i \in 1 .. Len(items) : items[i].t = "null"
             THEN Null                               \* ev.coin of null throws
             ELSE Events([i \in 1 .. Len(items) |-> mapRecord(items[i])])

\* server.js:43  resolve: the first call settles the promise, later calls
\* change nothing; <<>> is the pending promise
Resolve(promise, value) == IF promise = <<>> THEN <<value>> ELSE promise

\* the alternative error handler that issues the request again
onErrorRetry(q) == [q EXCEPT !.errorFired = TRUE, !.attempts = q.attempts + 1]

\* server.js:78-81  req.on('error')
onError(q) == [q EXCEPT !.errorFired = TRUE, !.promise = Resolve(q.promise, Null)]

\* server.js:61-76  res.on('end'), body being the accumulated text
onEnd(q, body) ==
    [q EXCEPT !.endFired = TRUE, !.body = <<body>>,
              !.promise = Resolve(q.promise, parseAndMap(body))]

\* server.js:42-84  the synchronous part of fetchRealUnlocks
fetchRealUnlocks ==
    IF DROPSTAB_API_KEY = undefined \/ DROPSTAB_API_KEY = <<"">>
    THEN [attempts |-> 0, promise |-> <<Null>>]
    ELSE [attempts |-> 1, promise |-> <<>>]

(***************************************************************************)
(* The request handlers (server.js:145-247)                                *)
(***************************************************************************)
Response(status, body) == [status |-> status, body |-> body]

\* the alternative that merges the remote events into the listing
listingMerged(realData) == unlocks \o realData.events

\* server.js:162  realData && realData.length > 0 ? realData : unlocks
listing(realData) ==
    IF ~realData.isNull /\ Len(realData.events) > 0 THEN realData.events ELSE unlocks

\* the alternative callback that keeps the remote events as the local ones
localAfterListingCached(result) == result

\* server.js:161-166  the callback leaves the local collection as it is
localAfterListing(result) == unlocks

\* server.js:159-168  GET /api/unlocks: fetchRealUnlocks() is called and the
\* callback registered
UnlocksArrive(r) ==
    /\ req[r] = Idle
    /\ LET f == fetchRealUnlocks
       IN  req' = [req EXCEPT ![r] =
                [route |-> "unlocks", attempts |-> f.attempts, promise |-> f.promise,
                 errorFired |-> FALSE, endFired |-> FALSE, body |-> <<>>,
                 thenRun |-> FALSE, responses |-> <<>>]]
    /\ UNCHANGED <<unlocks, priceSeries, DROPSTAB_API_KEY, ret>>

\* server.js:61-76  the provider's response ends
ProviderEnd(r, body) ==
    /\ req[r].route = "unlocks"
    /\ req[r].attempts > 0
    /\ ~req[r].endFired
    /\ req' = [req EXCEPT ![r] = onEnd(req[r], body)]
    /\ UNCHANGED <<unlocks, priceSeries, DROPSTAB_API_KEY, ret>>

\* server.js:78-81  the transport fails
ProviderError(r) ==
    /\ req[r].route = "unlocks"
    /\ req[r].attempts > 0
    /\ ~req[r].errorFired
    /\ req' = [req EXCEPT ![r] = onError(req[r])]
    /\ UNCHANGED <<unlocks, priceSeries, DROPSTAB_API_KEY, ret>>

\* server.js:161-166  the promise's callback
UnlocksThen(r) ==
    /\ req[r].route = "unlocks"
    /\ req[r].promise # <<>>
    /\ ~req[r].thenRun
    /\ LET result == listing(req[r].promise[1])
       IN  /\ req' = [req EXCEPT ![r].thenRun = TRUE,
                                 ![r].responses = Append(@, Response(200, result))]
           /\ unlocks' = localAfterListing(result)
    /\ UNCHANGED <<priceSeries, DROPSTAB_API_KEY, ret>>

\* Array.from(new Set(seq)): the distinct elements in order of first occurrence
RECURSIVE Distinct(_)
Distinct(seq) ==
    IF seq = <<>> THEN <<>>
    ELSE LET front == Distinct(SubSeq(seq, 1, Len(seq) - 1))
             last == seq[Len(seq)]
         IN  IF \E i \in 1 .. Len(front) : front[i] = last
             THEN front ELSE Append(front, last)

\* server.js:172-174
shortableTokens ==
    LET flagged == SelectSeq(unlocks, LAMBDA u : u.shortable)
    IN  Distinct([i \in 1 .. Len(flagged) |-> flagged[i].token])

\* server.js:171-179  GET /api/shortable
Shortable(r) ==
    /\ req[r] = Idle
    /\ req' = [req EXCEPT ![r] =
            [route |-> "shortable", responses |-> <<Response(200, shortableTokens)>>]]
    /\ UNCHANGED <<unlocks, priceSeries, DROPSTAB_API_KEY, ret>>

\* server.js:184-192
tokenDetail(tok) ==
    LET tokenEvents == SelectSeq(unlocks, LAMBDA u : u.token = tok)
    IN  [token |-> tok,
         shortable |-> \E i \in 1 .. Len(tokenEvents) : tokenEvents[i].shortable,
         unlocks |-> tokenEvents,
         priceSeries |-> IF tok \in DOMAIN priceSeries THEN priceSeries[tok] ELSE <<>>]

\* server.js:182-194  GET /api/token/<tok>
TokenDetail(r, tok) ==
    /\ req[r] = Idle
    /\ req' = [req EXCEPT ![r] =
            [route |-> "token", tok |-> tok,
             responses |-> <<Response(200, tokenDetail(tok))>>]]
    /\ UNCHANGED <<unlocks, priceSeries, DROPSTAB_API_KEY, ret>>

\* server.js:197-201,221  POST /api/backtest: the listeners are registered
BacktestArrive(r) ==
    /\ req[r] = Idle
    /\ req' = [req EXCEPT ![r] =
            [route |-> "backtest", body |-> <<>>, call |-> <<>>, responses |-> <<>>]]
    /\ UNCHANGED <<unlocks, priceSeries, DROPSTAB_API_KEY, ret>>

\* server.js:203-219  the try block and its catch.  A request body is
\* [t, token, hoursBefore, hoursAfter]: t is "invalid" (not JSON), "null",
\* "prim" (no property is defined) or "obj".  call is the invocation of
\* backtest, <<>> when there is none.
backtestHandler(body) ==
    IF body.t = "invalid"
    THEN [call |-> <<>>, response |-> Response(400, [error |-> "Unexpected token in JSON"])]
    ELSE IF body.t = "null"
    THEN [call |-> <<>>,
          response |-> Response(400, [error |-> "Cannot read properties of null"])]
    ELSE LET params == IF body.t = "obj" THEN body
                       ELSE [t |-> "prim", token |-> JAbsent,
                             hoursBefore |-> JAbsent, hoursAfter |-> JAbsent]
             token == params.token
             hoursBefore == OrZero(Number(params.hoursBefore))
             hoursAfter == OrZero(Number(params.hoursAfter))
         IN  IF ~Truthy(token)
             THEN [call |-> <<>>, response |-> Response(400, [error |-> "Token is required"])]
             ELSE [call |-> <<[token |-> token.s, hoursBefore |-> hoursBefore,
                               hoursAfter |-> hoursAfter]>>,
                   response |-> Response(200, backtest(token.s, hoursBefore, hoursAfter))]

\* server.js:202-220  the request body ends
BacktestEnd(r, body) ==
    /\ req[r].route = "backtest"
    /\ req[r].responses = <<>>
    /\ LET h == backtestHandler(body)
       IN  req' = [req EXCEPT ![r].body = <<body>>, ![r].call = h.call,
                              ![r].responses = <<h.response>>]
    /\ UNCHANGED <<unlocks, priceSeries, DROPSTAB_API_KEY, ret>>

\* server.js:145  the response was sent; the id is free for the next request
Release(r) ==
    /\ req[r] # Idle
    /\ req[r].responses # <<>>
    /\ req' = [req EXCEPT ![r] = Idle]
    /\ UNCHANGED <<unlocks, priceSeries, DROPSTAB_API_KEY, ret>>

(***************************************************************************)
(* The server's data and the inputs of its requests.                       *)
(***************************************************************************)
Point(t, p) == [timestamp |-> t, price |-> p]
Event(tok, t, a, sh) == [token |-> tok, timestamp |-> t, amountUsd |-> a, shortable |-> sh]

\* data/unlocks.json and data/price_series.json as loaded at server.js:24-29
Fixtures ==
    {[unlocks |-> <<Event("AAA", 1, 1000, TRUE), Event("BBB", 2, 500, FALSE)>>,
      priceSeries |-> [t \in {"AAA"} |-> <<Point(0, 10), Point(1, 12)>>]],
     [unlocks |-> <<Event("AAA", 0, 0, FALSE), Event("AAA", 1, 700, TRUE),
                    Event("BBB", 1, 300, TRUE)>>,
      priceSeries |-> [t \in {"AAA", "BBB"} |->
                          IF t = "AAA" THEN <<Point(0, 0), Point(1, 2), Point(2, 1)>>
                          ELSE <<Point(1, 5)>>]]}

ApiKeys == {undefined, <<"">>, <<"key">>}

R1 == Rec("CCC", 1, <<5000>>)
R2 == Rec("BBB", 2, <<>>)
R3 == Rec("AAA", 3, <<0>>)

ProviderBodies ==
    {[t |-> "invalid", data |-> NoData],
     [t |-> "null", data |-> NoData],
     [t |-> "prim", data |-> NoData],
     [t |-> "arr", data |-> NoData],
     BodyObj(NoData),
     BodyObj([t |-> "falsy", items |-> <<>>]),
     BodyObj([t |-> "other", items |-> <<>>]),
     BodyObj(DataArr(<<>>)),
     BodyObj(DataArr(<<R1>>)),
     BodyObj(DataArr(<<R1, NullRec>>)),
     BodyObj(DataArr(<<R2, R3>>)),
     BodyObj(DataArr(<<NullRec>>))}

SomeProviderBodies ==
    {[t |-> "invalid", data |-> NoData],
     BodyObj(NoData),
     BodyObj(DataArr(<<R1>>)),
     BodyObj(DataArr(<<R2, R3>>))}

PathTokens == {"AAA", "BBB", "ZZZ"}

ApiBody(token, hb, ha) == [t |-> "obj", token |-> token, hoursBefore |-> hb, hoursAfter |-> ha]
NoParams(t) == [t |-> t, token |-> JAbsent, hoursBefore |-> JAbsent, hoursAfter |-> JAbsent]

TokenValues == {JAbsent, JNull, JStr(""), JStr("AAA"), JStr("ZZZ")}
HourValues ==
    {JAbsent, JNull, JObj, JBool(FALSE), JBool(TRUE), JStr(""), JStr("abc"), JStr("2")}
        \cup {JNum(n) : n \in -1 .. 2}

ApiBodies ==
    {NoParams("invalid"), NoParams("null"), NoParams("prim")}
        \cup {ApiBody(tok, hb, ha) : tok \in TokenValues, hb \in HourValues, ha \in HourValues}

SomeApiBodies ==
    {NoParams("invalid"),
     ApiBody(JAbsent, JNum(1), JNum(1)),
     ApiBody(JStr("AAA"), JNum(1), JAbsent),
     ApiBody(JStr("AAA"), JNum(0), JNum(1))}

Init ==
    /\ \E f \in Fixtures : unlocks = f.unlocks /\ priceSeries = f.priceSeries
    /\ DROPSTAB_API_KEY \in ApiKeys
    /\ req = [r \in Requests |-> Idle]
    /\ ret = NoCall

\* the server under concurrent requests
Next ==
    \E r \in Requests :
        \/ UnlocksArrive(r)
        \/ \E body \in SomeProviderBodies : ProviderEnd(r, body)
        \/ ProviderError(r)
        \/ UnlocksThen(r)
        \/ Shortable(r)
        \/ \E tok \in PathTokens : TokenDetail(r, tok)
        \/ BacktestArrive(r)
        \/ \E body \in SomeApiBodies : BacktestEnd(r, body)
        \/ Release(r)

Spec == Init /\ [][Next]_vars

\* one request at a time, over every provider body and request body
NextOne ==
    \/ UnlocksArrive(1)
    \/ \E body \in ProviderBodies : ProviderEnd(1, body)
    \/ ProviderError(1)
    \/ UnlocksThen(1)
    \/ Shortable(1)
    \/ \E tok \in PathTokens : TokenDetail(1, tok)
    \/ BacktestArrive(1)
    \/ \E body \in ApiBodies : BacktestEnd(1, body)
    \/ Release(1)

SpecOne == Init /\ [][NextOne]_vars

(***************************************************************************)
(* Reference definitions used by the properties.                           *)
(***************************************************************************)
MaxOf(S) == CHOOSE x \in S : \A y \in S : y <= x

\* the as-of price, stated over the set of qualifying samples
PriceAtRef(token, ts) ==
    IF token \notin DOMAIN priceSeries THEN undefined
    ELSE LET s == priceSeries[token]
             Q == {i \in 1 .. Len(s) : DateParse(s[i].timestamp) <= ts}
         IN  IF Q = {} THEN undefined ELSE <<s[MaxOf(Q)].price>>

RefBuy(i, token, hb) ==
    PriceAtRef(token, DateParse(unlocks[i].timestamp) - hb * MsPerHour)

RefSell(i, token, ha) ==
    PriceAtRef(token, DateParse(unlocks[i].timestamp) + ha * MsPerHour)

\* the events (by position in the collection) that count as a trade
TradeIdx(token, hb, ha) ==
    {i \in 1 .. Len(unlocks) :
        /\ unlocks[i].token = token
        /\ RefBuy(i, token, hb) # undefined
        /\ RefSell(i, token, ha) # undefined}

RECURSIVE ProdBuy(_, _, _)
ProdBuy(T, token, hb) ==
    IF T = {} THEN 1
    ELSE LET i == CHOOSE x \in T : TRUE
         IN  RefBuy(i, token, hb)[1] * ProdBuy(T \ {i}, token, hb)

\* the sum over T of roi_i * D, for D a common multiple of the buy prices
RECURSIVE SumRoiTimes(_, _, _, _, _)
SumRoiTimes(T, D, token, hb, ha) ==
    IF T = {} THEN 0
    ELSE LET i == CHOOSE x \in T : TRUE
             b == RefBuy(i, token, hb)[1]
             s == RefSell(i, token, ha)[1]
         IN  (s - b) * (D \div b) + SumRoiTimes(T \ {i}, D, token, hb, ha)

AllPricesPositive ==
    \A t \in DOMAIN priceSeries :
        \A i \in 1 .. Len(priceSeries[t]) : priceSeries[t][i].price > 0

(***************************************************************************)
(* C1.  For a price series sorted ascending by timestamp, getPrice returns *)
(* the price of the last sample, in sequence order, whose timestamp is at  *)
(* or before ts, and undefined when no sample qualifies or the token has   *)
(* no series.                                                              *)
(***************************************************************************)
C1_GetPriceAsOf ==
    ret.op = "getPrice" =>
        ((ret.token \in DOMAIN priceSeries => IsSorted(priceSeries[ret.token]))
            => ret.value = PriceAtRef(ret.token, ret.ts))

\* two samples at the same instant: the later one wins
C1_Witness ==
    /\ ret.op = "getPrice"
    /\ ret.token = "AAA"
    /\ Len(priceSeries["AAA"]) = 2
    /\ priceSeries["AAA"][1].timestamp = priceSeries["AAA"][2].timestamp
    /\ priceSeries["AAA"][1].price # priceSeries["AAA"][2].price
    /\ ret.ts = DateParse(priceSeries["AAA"][2].timestamp)
    /\ ret.value = <<priceSeries["AAA"][2].price>>

(***************************************************************************)
(* C2.  With strictly positive prices, backtest returns the reference      *)
(* result: trades is the number of the token's events with both a buy and  *)
(* a sell price, winRate the fraction of them with sell > buy (roi > 0),   *)
(* avgRoi the mean of (sell - buy) / buy over them.                        *)
(***************************************************************************)
C2_BacktestReference ==
    (ret.op = "backtest" /\ AllPricesPositive) =>
        LET T == TradeIdx(ret.token, ret.hoursBefore, ret.hoursAfter)
            n == Cardinality(T)
            W == {i \in T : RefSell(i, ret.token, ret.hoursAfter)[1]
                              > RefBuy(i, ret.token, ret.hoursBefore)[1]}
            D == ProdBuy(T, ret.token, ret.hoursBefore)
            v == ret.value
        IN  /\ v.trades = n
            /\ n > 0 =>
                /\ v.winRate = Fin(Cardinality(W), n)
                /\ v.avgRoi.k = "fin"
                /\ v.avgRoi.n * n * D
                     = v.avgRoi.d * SumRoiTimes(T, D, ret.token, ret.hoursBefore, ret.hoursAfter)
            /\ n = 0 => (v.winRate = Zero /\ v.avgRoi = Zero)

\* two trades, one flat (roi = 0, not a win) and one winning
C2_Witness ==
    /\ ret.op = "backtest"
    /\ AllPricesPositive
    /\ ret.value.trades = 2
    /\ ret.value.winRate = Fin(1, 2)
    /\ ret.value.avgRoi = Fin(1, 2)

(***************************************************************************)
(* C3.  When no event of the token yields a trade (no matching event, or   *)
(* every matching event lacks a buy or a sell price), backtest returns     *)
(* exactly trades 0, winRate 0, avgRoi 0.                                  *)
(***************************************************************************)
C3_NoTradeIsZero ==
    (ret.op = "backtest"
        /\ TradeIdx(ret.token, ret.hoursBefore, ret.hoursAfter) = {})
    => ret.value = [trades |-> 0, winRate |-> Zero, avgRoi |-> Zero]

\* the token has events, none of them covered by a buy price
C3_Witness ==
    /\ ret.op = "backtest"
    /\ ret.token = "AAA"
    /\ Len(priceSeries["AAA"]) > 0
    /\ \E i \in 1 .. Len(unlocks) : unlocks[i].token = "AAA"
    /\ TradeIdx(ret.token, ret.hoursBefore, ret.hoursAfter) = {}
    /\ ret.value = [trades |-> 0, winRate |-> Zero, avgRoi |-> Zero]

(***************************************************************************)
(* C4.  For non-negative prices backtest returns a well-formed result:     *)
(* trades >= 0, winRate in [0,1], avgRoi finite.  (Violated: a buy price   *)
(* of 0 makes roi Infinity or NaN, which enters totalRoi and avgRoi.)      *)
(***************************************************************************)
C4_WellFormedResult ==
    (ret.op = "backtest" /\ ret.hoursBefore >= 0 /\ ret.hoursAfter >= 0) =>
        /\ ret.value.trades >= 0
        /\ IsFinite(ret.value.winRate)
        /\ 0 <= ret.value.winRate.n /\ ret.value.winRate.n <= ret.value.winRate.d
        /\ IsFinite(ret.value.avgRoi)

(***************************************************************************)
(* C5.  The body of a 'list unlocks' response is the local collection      *)
(* verbatim when the request's fetch yielded null or an empty sequence     *)
(* (the two are answered alike), and exactly the normalizer's output when  *)
(* it yielded a non-empty sequence.                                        *)
(***************************************************************************)
C5_ListingFallback ==
    \A r \in Requests :
        (req[r].route = "unlocks" /\ req[r].responses # <<>>) =>
            LET realData == req[r].promise[1]
                response == req[r].responses[1]
            IN  /\ response.status = 200
                /\ (realData.isNull \/ realData.events = <<>>) => response.body = unlocks
                /\ (~realData.isNull /\ realData.events # <<>>)
                       => response.body = realData.events

\* one request answered from an empty remote sequence, one from a remote
\* sequence that differs from the local collection
C5_Witness ==
    \E r, q \in Requests :
        /\ req[r].route = "unlocks" /\ req[q].route = "unlocks"
        /\ req[r].responses # <<>> /\ req[q].responses # <<>>
        /\ req[r].promise = <<Events(<<>>)>>
        /\ req[r].responses[1].body = unlocks
        /\ ~req[q].promise[1].isNull
        /\ Len(req[q].promise[1].events) = 2
        /\ req[q].responses[1].body = req[q].promise[1].events
        /\ req[q].responses[1].body # unlocks

KeyConfigured == DROPSTAB_API_KEY # undefined /\ DROPSTAB_API_KEY # <<"">>

\* the requests whose promise was settled by the 'end' handler
SettledByEnd(r) ==
    req[r].route = "unlocks" /\ req[r].endFired /\ ~req[r].errorFired

\* the requests whose promise was settled by the 'error' handler
SettledByError(r) ==
    req[r].route = "unlocks" /\ req[r].errorFired /\ ~req[r].endFired

HasNullRecord(body) ==
    body.t = "obj" /\ body.data.t = "arr"
        /\ \E i \in 1 .. Len(body.data.items) : body.data.items[i].t = "null"

NoRemoteCallWithoutKey ==
    \A r \in Requests :
        (req[r].route = "unlocks" /\ ~KeyConfigured) =>
            (req[r].attempts = 0 /\ req[r].promise = <<Null>>)

EverySequenceFullyMapped ==
    \A r \in Requests :
        (SettledByEnd(r) /\ ~req[r].promise[1].isNull /\ req[r].body[1].t = "obj"
            /\ req[r].body[1].data.t = "arr") =>
            LET items == req[r].body[1].data.items
                evs == req[r].promise[1].events
            IN  /\ Len(evs) = Len(items)
                /\ \A i \in 1 .. Len(items) :
                       /\ evs[i].token = items[i].coin
                       /\ evs[i].timestamp = items[i].date * 24
                       /\ evs[i].shortable = FALSE

(***************************************************************************)
(* C6 (as stated).  fetchRealUnlocks settles its promise with a value and  *)
(* never with an error.  Without a credential the value is null and no     *)
(* request is made.  A transport failure, invalid JSON, a body that is not *)
(* an object, a data field that is not an array and a null record all give *)
(* null, and a sequence has one event per record.  (Violated: a number, a  *)
(* string, a boolean or an array as the body, and a falsy data field, give *)
(* the empty sequence.)                                                    *)
(***************************************************************************)
C6_MalformedIsAbsent ==
    /\ NoRemoteCallWithoutKey
    /\ EverySequenceFullyMapped
    /\ \A r \in Requests : SettledByError(r) => req[r].promise = <<Null>>
    /\ \A r \in Requests :
           (SettledByEnd(r)
               /\ LET body == req[r].body[1]
                  IN  \/ body.t \in {"invalid", "null", "prim", "arr"}
                      \/ body.t = "obj" /\ body.data.t \in {"falsy", "other"}
                      \/ HasNullRecord(body))
           => req[r].promise = <<Null>>

(***************************************************************************)
(* C6 (as amended).  As above, except that null is the value for a         *)
(* transport failure, invalid JSON, a null body, a truthy data field that  *)
(* is not an array and a null record, while a body that parses to a value  *)
(* other than null and has no truthy data field gives the empty sequence.  *)
(***************************************************************************)
C6_MalformedIsAbsentOrEmpty ==
    /\ NoRemoteCallWithoutKey
    /\ EverySequenceFullyMapped
    /\ \A r \in Requests : SettledByError(r) => req[r].promise = <<Null>>
    /\ \A r \in Requests :
           SettledByEnd(r) =>
               LET body == req[r].body[1]
               IN  /\ (\/ body.t \in {"invalid", "null"}
                       \/ body.t = "obj" /\ body.data.t = "other"
                       \/ HasNullRecord(body))
                      => req[r].promise = <<Null>>
                   /\ (\/ body.t \in {"prim", "arr"}
                       \/ body.t = "obj" /\ body.data.t \in {"absent", "falsy"})
                      => req[r].promise = <<Events(<<>>)>>
                   /\ (body.t = "obj" /\ body.data.t = "arr" /\ ~HasNullRecord(body))
                      => ~req[r].promise[1].isNull

\* a response whose data array holds a record and a null record gave null
C6_Witness ==
    \E r \in Requests :
        /\ KeyConfigured
        /\ SettledByEnd(r)
        /\ HasNullRecord(req[r].body[1])
        /\ Len(req[r].body[1].data.items) = 2
        /\ req[r].promise = <<Null>>

\* the offset the handler is expected to pass on for a JSON value
ExpectedHours(j) ==
    CASE j.t = "num" -> j.n
      [] j = JStr("2") -> 2
      [] j = JBool(TRUE) -> 1
      [] OTHER -> 0

C8_ParamsConstraint ==
    \A r \in Requests :
        (req[r].route = "backtest" /\ req[r].call # <<>>) =>
            /\ req[r].call[1].token # ""
            /\ req[r].call[1].hoursBefore >= 0
            /\ req[r].call[1].hoursAfter >= 0

AnswersFromLocalData ==
    \A r \in Requests :
        /\ (req[r].route = "backtest" /\ req[r].call # <<>>) =>
               req[r].responses[1].body
                   = backtest(req[r].call[1].token, req[r].call[1].hoursBefore,
                              req[r].call[1].hoursAfter)
        /\ req[r].route = "shortable" => req[r].responses[1].body = shortableTokens
        /\ req[r].route = "token" => req[r].responses[1].body = tokenDetail(req[r].tok)

(***************************************************************************)
(* C9.  No request and no outcome of a remote fetch changes the local      *)
(* unlock collection or the price series, and every answer of the          *)
(* backtest, shortable-tokens and token-detail routes is the one computed  *)
(* from the local data, whatever the remote fetches have returned.         *)
(***************************************************************************)
C9_LocalDataFrame ==
    /\ [][unlocks' = unlocks /\ priceSeries' = priceSeries]_vars
    /\ []AnswersFromLocalData

\* a listing answered with remote events beside a backtest answered with a
\* trade of the local data
C9_Witness ==
    \E r, q \in Requests :
        /\ req[r].route = "unlocks" /\ req[r].responses # <<>>
        /\ req[r].responses[1].body # unlocks
        /\ req[q].route = "backtest" /\ req[q].call # <<>>
        /\ req[q].call[1] = [token |-> "AAA", hoursBefore |-> 1, hoursAfter |-> 0]
        /\ req[q].responses[1].body
               = [trades |-> 1, winRate |-> Fin(1, 1), avgRoi |-> Fin(1, 5)]

\* while the fetch of r is pending, the handlers of every other request q
\* are enabled
OthersCanProceed ==
    \A r, q \in Requests :
        (r # q /\ req[r].route = "unlocks" /\ req[r].promise = <<>>) =>
            /\ req[q] = Idle => ENABLED Shortable(q)
            /\ (req[q].route = "backtest" /\ req[q].responses = <<>>)
                   => ENABLED BacktestEnd(q, NoParams("invalid"))
            /\ (req[q].route = "unlocks" /\ req[q].promise # <<>> /\ ~req[q].thenRun)
                   => ENABLED UnlocksThen(q)

(***************************************************************************)
(* C10.  A 'list unlocks' request makes at most one remote request (none   *)
(* without a credential), never a second one whatever the outcome, and     *)
(* sends at most one response, only after its own promise is settled and   *)
(* exactly one once the callback has run, also when both 'error' and 'end' *)
(* were emitted.  A request whose fetch is pending does not keep the       *)
(* handlers of the other requests from running.                            *)
(***************************************************************************)
C10_OneFetchOneResponse ==
    /\ \A r \in Requests :
           req[r].route = "unlocks" =>
               /\ req[r].attempts <= 1
               /\ ~KeyConfigured => req[r].attempts = 0
               /\ Len(req[r].responses) <= 1
               /\ req[r].responses # <<>> => req[r].promise # <<>>
               /\ req[r].thenRun => Len(req[r].responses) = 1
    /\ OthersCanProceed

\* one request answered once after both 'error' and 'end', while the fetch
\* of another is still pending
C10_Witness ==
    \E r, q \in Requests :
        /\ req[r].route = "unlocks" /\ req[r].promise = <<>> /\ req[r].attempts = 1
        /\ req[q].route = "unlocks"
        /\ req[q].errorFired /\ req[q].endFired
        /\ Len(req[q].responses) = 1

====
